---- MODULE Spec2Model ----
(***************************************************************************)
(* Model of the upload pipeline of app.py: handle_upload starts a session, *)
(* upload_files_in_batches slices the submitted files, upload_files        *)
(* requests one presigned URL per file in sequence and then awaits all the *)
(* PUT coroutines of the batch with asyncio.gather.                        *)
(***************************************************************************)
EXTENDS Integers, Sequences, FiniteSets, TLC

\* ---------------------------------------------------------------- bounds
MaxFiles == 4          \* most files selected in the uploader
MaxNumFiles == 3       \* max_num_files of main, scaled down from 1000
MaxFailsFirst == 5     \* longest run of leading 503 answers the storage gives one PUT
BatchSize == 2         \* batch_size of upload_files_in_batches, scaled down from 50

\* ---------------------------------------------------------------- data
FileOrder == <<"a.jpg", "b.jpg", "c.jpg", "d.jpg", "e.jpg">>
NoFile == "-"
AllFiles == {FileOrder[n] : n \in 1..Len(FileOrder)}

\* answers of GET get-deployments: a list, an empty list, 401, another HTTP
\* error status, or no answer at all (network error, timeout)
LoginOutcomes == {"ok", "empty", "401", "http", "neterr"}

\* the deployment records of a non-empty answer
Catalog ==
    << [country |-> "United Kingdom", country_code |-> "GB", location_name |-> "Wytham",
        camera_id |-> "cam-1", deployment_id |-> "dep-42", status |-> "active"],
       [country |-> "Panama", country_code |-> "PA", location_name |-> "Gamboa",
        camera_id |-> "cam-7", deployment_id |-> "dep-77", status |-> "inactive"] >>

\* a get_deployments that returns the parsed body without raise_for_status
GetDeploymentsNoRaise(outcome) == IF outcome \in {"ok", "401", "http"} THEN Catalog ELSE <<>>

\* get_deployments: response.json() on success, [] after any exception
GetDeployments(outcome) == IF outcome = "ok" THEN Catalog ELSE <<>>

\* how the storage treats the PUTs of one object: it accepts the first, it
\* accepts the second, or it answers 503 to the first MaxFailsFirst
FailsFirstChoices == {0, 1, MaxFailsFirst}

\* answers of POST generate-presigned-url as raise_for_status classifies them
UrlOutcomes == {"ok", "401", "4xx", "5xx"}

VARIABLES
    logged,         \* "deployments" in st.session_state
    deployments,    \* st.session_state.deployments
    lastLogin,      \* answer to the last get_deployments call, "none" before the first
    form,           \* arguments of handle_upload in this script run (blank if not called)
    stored,         \* objects present at the destination (remote storage)
    storedAtStart,  \* value of stored when the running session was submitted
    prevFiles,      \* file list of the previous session
    files,          \* files: the list handed to upload_files_in_batches
    pc,             \* "idle" | "presign" | "urlwait" | "gather" | "await" | "ended"
                    \* (upload over) | "shown" (run without upload over)
    i,              \* loop variable i of upload_files_in_batches (0-based)
    cur,            \* position in the batch of the file upload_files is at (1-based)
    url,            \* per file: answer to its presigned-URL request, "none" if not
                    \* asked, "pending" while awaited
    urlAttempts,    \* per file: number of generate-presigned-url requests sent
    put,            \* per file: "none" | "created" | "inflight" | "ok" | "failed"
    presigned_url,  \* presigned_url of upload_files: the file the held grant is for
    taskArgs,       \* per file: arguments of the upload_file_to_s3 coroutine created
                    \* in its loop iteration
    putAttempts,    \* per file: number of PUT requests sent
    putFailsFirst,  \* per file: leading PUT attempts the storage answers 503, -1 unknown
    sent,           \* remote requests of the session: <<endpoint, file>>
    errors,         \* files named by st.error("Error getting presigned URL for ...")
    raised,         \* file whose PUT exception gather propagated first
    notice          \* final message of handle_upload: "none" | "success" | "failed"

vars == <<logged, deployments, lastLogin, form, stored, storedAtStart, prevFiles, files, pc, i, cur, url, urlAttempts,
          put, presigned_url, taskArgs, putAttempts, putFailsFirst, sent, errors,
          raised, notice>>

Min(a, b) == IF a < b THEN a ELSE b

Range(s) == {s[n] : n \in 1..Len(s)}

\* ---------------------------------------------------------------- the form
\* valid_country_names: countries with an active deployment
ValidCountryNames(deps) ==
    {deps[n].country : n \in {m \in 1..Len(deps) : deps[m].status = "active"}}

\* deployment_names: "location_name - camera_id" of the active deployments; the
\* list kept in st.session_state outlives a country reset to its placeholder
DeploymentNames(deps) ==
    {<<deps[n].location_name, deps[n].camera_id>> :
        n \in {m \in 1..Len(deps) : deps[m].status = "active"}}

BlankForm ==
    [full_name |-> "", country |-> "Select Country",
     deployment |-> <<"Select Deployment">>, data_type |-> "Select Data Type",
     nfiles |-> 0]

\* what the widgets of main can hold when the Upload button is pressed
Forms ==
    [full_name : {"", "Jane Doe"},
     country : {"Select Country"} \cup ValidCountryNames(deployments),
     deployment : {<<"Select Deployment">>} \cup DeploymentNames(deployments),
     data_type : {"Select Data Type", "snapshot_images"},
     nfiles : 0..MaxFiles]

\* the uploader's list when n files were selected, in selection order
Selected(n) == SubSeq(FileOrder, 1, n)

\* an uploader list passed on without the cut
NotCapped(sel) == sel

\* main: uploaded_files[:max_num_files] when more than max_num_files were selected
Capped(sel) == IF Len(sel) > MaxNumFiles THEN SubSeq(sel, 1, MaxNumFiles) ELSE sel

\* a chain of checks that forgets the data type
WarningWithoutDataType(fm) ==
    IF fm.full_name = "" THEN "Please enter your full name."
    ELSE IF fm.country = "Select Country" THEN "Please select a country."
    ELSE IF fm.deployment = <<"Select Deployment">> THEN "Please select a deployment."
    ELSE IF Len(Capped(Selected(fm.nfiles))) = 0 THEN "Please upload at least one file."
    ELSE "none"

\* handle_upload, the if/elif chain: the warning shown, "none" for the else branch
Warning(fm) ==
    IF fm.full_name = "" THEN "Please enter your full name."
    ELSE IF fm.country = "Select Country" THEN "Please select a country."
    ELSE IF fm.deployment = <<"Select Deployment">> THEN "Please select a deployment."
    ELSE IF fm.data_type = "Select Data Type" THEN "Please select a data type."
    ELSE IF Len(Capped(Selected(fm.nfiles))) = 0 THEN "Please upload at least one file."
    ELSE "none"

\* __main__ calls main once "deployments" is in the session state, and main
\* returns before drawing the form when the list is empty
FormOffered == logged /\ deployments # <<>>

\* a slice that forgets its end: files[i:]
BatchNoEnd(fs, start) == SubSeq(fs, start + 1, Len(fs))

\* files[i:end] with end = i + batch_size (Python slice, 0-based, end clipped)
Batch(fs, start) == SubSeq(fs, start + 1, Min(start + BatchSize, Len(fs)))

NoArgs == [url |-> NoFile, content |-> NoFile]

\* a call that binds the loop variable late: every coroutine sees the content
\* of the last file of the batch
UploadFileToS3CallLateBound(presigned, f) ==
    [url |-> presigned, content |-> Batch(files, i)[Len(Batch(files, i))]]

\* upload_file_to_s3(presigned_url, file_content, file_type) of the iteration of f
UploadFileToS3Call(presigned, f) == [url |-> presigned, content |-> f]

\* the coroutines appended to tasks by the running upload_files call
Tasks == {f \in Range(Batch(files, i)) : put[f] # "none"}

\* a wait that resumes on the first finished task instead of on all of them
GatherFirstCompleted(ts) == ts = {} \/ \E f \in ts : put[f] = "ok"

\* a join that also waits for the files whose coroutine was never created
GatherAwaitsWholeBatch(ts) == \A f \in Range(Batch(files, i)) : put[f] = "ok"

\* asyncio.gather(*tasks) yields its result: every awaitable finished without raising
GatherDone(ts) == \A f \in ts : put[f] = "ok"

\* asyncio.gather(*tasks) propagates the first exception as soon as one task raised
GatherFailed(ts) == \E f \in ts : put[f] = "failed"

Init ==
    /\ logged = FALSE
    /\ deployments = <<>>
    /\ lastLogin = "none"
    /\ form = BlankForm
    /\ stored = {}
    /\ storedAtStart = {}
    /\ prevFiles = <<>>
    /\ files = <<>>
    /\ pc = "idle"
    /\ i = 0
    /\ cur = 1
    /\ url = [f \in AllFiles |-> "none"]
    /\ urlAttempts = [f \in AllFiles |-> 0]
    /\ put = [f \in AllFiles |-> "none"]
    /\ presigned_url = NoFile
    /\ taskArgs = [f \in AllFiles |-> NoArgs]
    /\ putAttempts = [f \in AllFiles |-> 0]
    /\ putFailsFirst = [f \in AllFiles |-> -1]
    /\ sent = {}
    /\ errors = {}
    /\ raised = NoFile
    /\ notice = "none"

\* what a script run starts with: no message on the page, no upload under way
NewRun ==
    /\ i' = 0
    /\ cur' = 1
    /\ url' = [f \in AllFiles |-> "none"]
    /\ urlAttempts' = [f \in AllFiles |-> 0]
    /\ put' = [f \in AllFiles |-> "none"]
    /\ presigned_url' = NoFile
    /\ taskArgs' = [f \in AllFiles |-> NoArgs]
    /\ putAttempts' = [f \in AllFiles |-> 0]
    /\ putFailsFirst' = [f \in AllFiles |-> -1]
    /\ sent' = {}
    /\ errors' = {}
    /\ raised' = NoFile

runVars == <<i, cur, url, urlAttempts, put, presigned_url, taskArgs, putAttempts,
             putFailsFirst, sent, errors, raised>>

\* the user touches a widget after a script run has finished: the script is
\* run again from the top and the page is drawn afresh
Rerun ==
    /\ pc \in {"ended", "shown"}
    /\ pc' = "idle"
    /\ form' = BlankForm
    /\ notice' = "none"
    /\ NewRun
    /\ UNCHANGED <<logged, deployments, lastLogin, stored, storedAtStart, prevFiles, files>>

\* __main__, Login pressed with username and password filled in:
\* st.session_state.deployments = get_deployments(username, password)
Login(outcome) ==
    /\ pc = "idle"
    /\ logged' = TRUE
    /\ deployments' = GetDeployments(outcome)
    /\ lastLogin' = outcome
    /\ pc' = "shown"
    /\ notice' = IF outcome \in {"ok", "http"} THEN "none"
                 ELSE IF outcome = "empty" THEN "No deployments found."
                 ELSE IF outcome = "401" THEN "Wrong username or password. Try again!"
                 ELSE "An error occurred"
    /\ UNCHANGED <<form, stored, storedAtStart, prevFiles, files, runVars>>

\* __main__, Login pressed with an empty username or password: only a warning
LoginBlank ==
    /\ pc = "idle"
    /\ pc' = "shown"
    /\ notice' = "Please enter your username and password"
    /\ UNCHANGED <<logged, deployments, lastLogin, form, stored, storedAtStart,
                   prevFiles, files, runVars>>

\* handle_upload, one of the warning branches: nothing else happens
HandleUploadWarning(fm) ==
    /\ pc = "idle"
    /\ FormOffered
    /\ fm \in Forms
    /\ Warning(fm) # "none"
    /\ form' = fm
    /\ pc' = "shown"
    /\ notice' = Warning(fm)
    /\ UNCHANGED <<logged, deployments, lastLogin, stored, storedAtStart, prevFiles,
                   files, runVars>>

\* handle_upload, else branch: the form is complete; the files main passed on
\* are read and asyncio.run(upload_files_in_batches(...)) starts.
HandleUpload(fm) ==
    /\ pc = "idle"
    /\ FormOffered
    /\ fm \in Forms
    /\ Warning(fm) = "none"
    /\ form' = fm
    /\ prevFiles' = files
    /\ files' = Capped(Selected(fm.nfiles))
    /\ storedAtStart' = stored
    /\ pc' = "presign"
    /\ UNCHANGED <<logged, deployments, lastLogin, stored, notice, runVars>>

\* upload_files, start of one iteration of the for loop: get_presigned_url
\* posts the request for the file at cur and upload_files awaits the answer.
PostPresignedUrl ==
    /\ pc = "presign"
    /\ LET f == Batch(files, i)[cur]
       IN /\ urlAttempts' = [urlAttempts EXCEPT ![f] = @ + 1]
          /\ sent' = sent \cup {<<"generate-presigned-url", f>>}
          /\ url' = [url EXCEPT ![f] = "pending"]
    /\ pc' = "urlwait"
    /\ UNCHANGED <<logged, deployments, lastLogin, form>>
    /\ UNCHANGED <<stored, storedAtStart, prevFiles, files, i, cur, put,
                   presigned_url, taskArgs, putAttempts, putFailsFirst, errors,
                   raised, notice>>

\* upload_files, rest of the iteration: the answer for the file at cur arrives;
\* on success the PUT coroutine is created and appended to tasks, on any
\* exception st.error names the file and the loop goes on.
GetPresignedUrl(outcome) ==
    /\ pc = "urlwait"
    /\ LET batch == Batch(files, i)
           f == batch[cur]
       IN /\ url' = [url EXCEPT ![f] = outcome]
          /\ IF outcome = "ok"
                THEN /\ presigned_url' = f
                     /\ taskArgs' = [taskArgs EXCEPT ![f] = UploadFileToS3Call(presigned_url', f)]
                     /\ put' = [put EXCEPT ![f] = "created"]
                     /\ errors' = errors
                ELSE /\ presigned_url' = presigned_url
                     /\ taskArgs' = taskArgs
                     /\ put' = put
                     /\ errors' = errors \cup {f}
          /\ IF cur < Len(batch)
                THEN /\ cur' = cur + 1
                     /\ pc' = "presign"
                ELSE /\ cur' = cur
                     /\ pc' = "gather"
    /\ UNCHANGED <<logged, deployments, lastLogin, form>>
    /\ UNCHANGED <<stored, storedAtStart, prevFiles, files, i, urlAttempts, sent,
                   putAttempts, putFailsFirst, raised, notice>>

\* await asyncio.gather(*tasks): every coroutine of tasks is wrapped in a task
\* and takes its first step (the PUT request goes out) before gather can resume.
Gather ==
    /\ pc = "gather"
    /\ put' = [f \in AllFiles |-> IF f \in Tasks THEN "inflight" ELSE put[f]]
    /\ putAttempts' = [f \in AllFiles |->
                          IF f \in Tasks THEN putAttempts[f] + 1 ELSE putAttempts[f]]
    /\ sent' = sent \cup {<<"put", f>> : f \in Tasks}
    /\ pc' = "await"
    /\ UNCHANGED <<logged, deployments, lastLogin, form>>
    /\ UNCHANGED <<stored, storedAtStart, prevFiles, files, i, cur, url,
                   urlAttempts, presigned_url, taskArgs, putFailsFirst, errors,
                   raised, notice>>

\* upload_file_to_s3 finishes for f: the storage answers 503 to the first k
\* attempts for this object; the single attempt made succeeds iff k = 0,
\* otherwise raise_for_status raises.
UploadFileToS3(f, k) ==
    /\ pc = "await"
    /\ put[f] = "inflight"
    /\ k \in 0..MaxFailsFirst
    /\ putFailsFirst' = [putFailsFirst EXCEPT ![f] = k]
    /\ IF putAttempts[f] > k
          THEN /\ put' = [put EXCEPT ![f] = "ok"]
               /\ stored' = stored \cup {taskArgs[f].url}
               /\ raised' = raised
          ELSE /\ put' = [put EXCEPT ![f] = "failed"]
               /\ stored' = stored
               /\ raised' = IF raised = NoFile THEN f ELSE raised
    /\ UNCHANGED <<logged, deployments, lastLogin, form>>
    /\ UNCHANGED <<storedAtStart, prevFiles, files, pc, i, cur, url, urlAttempts,
                   presigned_url, taskArgs, putAttempts, sent, errors, notice>>

\* gather returns, upload_files returns, and the for loop of
\* upload_files_in_batches goes to the next slice.
NextBatch ==
    /\ pc = "await"
    /\ GatherDone(Tasks)
    /\ i + BatchSize < Len(files)
    /\ i' = i + BatchSize
    /\ cur' = 1
    /\ pc' = "presign"
    /\ presigned_url' = NoFile
    /\ UNCHANGED <<logged, deployments, lastLogin, form>>
    /\ UNCHANGED <<stored, storedAtStart, prevFiles, files, url, urlAttempts, put,
                   taskArgs, putAttempts, putFailsFirst, sent, errors, raised, notice>>

\* gather returns for the last slice: asyncio.run returns and handle_upload
\* shows st.success("Files uploaded successfully!").
Success ==
    /\ pc = "await"
    /\ GatherDone(Tasks)
    /\ ~(i + BatchSize < Len(files))
    /\ pc' = "ended"
    /\ notice' = "success"
    /\ UNCHANGED <<logged, deployments, lastLogin, form>>
    /\ UNCHANGED <<stored, storedAtStart, prevFiles, files, i, cur, url,
                   urlAttempts, put, presigned_url, taskArgs, putAttempts,
                   putFailsFirst, sent, errors, raised>>

\* gather raises the first PUT exception; it leaves upload_files,
\* upload_files_in_batches and asyncio.run, and handle_upload shows
\* st.error("Failed to upload files. Error: ..."). The other tasks are neither
\* awaited nor cancelled.
Failure ==
    /\ pc = "await"
    /\ GatherFailed(Tasks)
    /\ pc' = "ended"
    /\ notice' = "failed"
    /\ UNCHANGED <<logged, deployments, lastLogin, form>>
    /\ UNCHANGED <<stored, storedAtStart, prevFiles, files, i, cur, url,
                   urlAttempts, put, presigned_url, taskArgs, putAttempts,
                   putFailsFirst, sent, errors, raised>>

Next ==
    \/ Rerun
    \/ \E o \in LoginOutcomes : Login(o)
    \/ LoginBlank
    \/ \E fm \in Forms : HandleUploadWarning(fm)
    \/ \E fm \in Forms : HandleUpload(fm)
    \/ PostPresignedUrl
    \/ \E o \in UrlOutcomes : GetPresignedUrl(o)
    \/ Gather
    \/ \E f \in AllFiles, k \in FailsFirstChoices : UploadFileToS3(f, k)
    \/ NextBatch
    \/ Success
    \/ Failure

Spec == Init /\ [][Next]_vars

\* the steps of a running session: the event loop runs every ready coroutine,
\* and every request returns within its ClientTimeout(total=600)
SessionStep ==
    \/ PostPresignedUrl
    \/ \E o \in UrlOutcomes : GetPresignedUrl(o)
    \/ Gather
    \/ \E f \in AllFiles, k \in FailsFirstChoices : UploadFileToS3(f, k)
    \/ NextBatch
    \/ Success
    \/ Failure

FairSpec == Init /\ [][Next]_vars /\ WF_vars(SessionStep)

\* ---------------------------------------------------------------- reports
\* messages that name f as failed: the per-file st.error of upload_files, and
\* the final st.error of handle_upload, whose text is the exception of one PUT
FailedReports(f) ==
    (IF f \in errors THEN 1 ELSE 0) + (IF notice = "failed" /\ raised = f THEN 1 ELSE 0)

\* st.success("Files uploaded successfully!") speaks for every submitted file
SucceededReports(f) == IF notice = "success" THEN 1 ELSE 0

\* position n of files belongs to the slice number BatchNo(n) (0-based)
BatchNo(n) == (n - 1) \div BatchSize

InFlight == {f \in AllFiles : put[f] = "inflight"}

Positions == 1..Len(files)

\* ---------------------------------------------------------------- claims

\* C1: when a session has ended, every submitted file has been reported
\* exactly once, as succeeded or as failed.
C1_EveryFileReportedOnce ==
    pc = "ended" =>
        \A f \in Range(files) : FailedReports(f) + SucceededReports(f) = 1

\* C2: a non-auth failure of one file (its URL request or its PUT) does not
\* keep any other file of the session from being processed: when the session
\* has ended every other file had its URL requested and, if granted, its PUT
\* driven to success or failure.
C2_FailureDoesNotStopOthers ==
    pc = "ended" =>
        \A g \in Range(files) :
            (url[g] \in {"4xx", "5xx"} \/ put[g] = "failed") =>
                \A f \in Range(files) \ {g} :
                    /\ url[f] # "none"
                    /\ url[f] = "ok" => put[f] \in {"ok", "failed"}

\* C3: once a presigned-URL request has been answered 401, no file later in
\* the submitted list has a URL requested or a PUT created, and none of them
\* gets a failure entry.
C3_AuthErrorAborts ==
    \A m, n \in Positions :
        (m < n /\ url[files[m]] = "401") =>
            /\ url[files[n]] = "none"
            /\ put[files[n]] = "none"
            /\ files[n] \notin errors

\* C4: a presigned URL is requested (and a PUT made) for a file only after an
\* existence check for it was sent in the session, and never for a file that
\* is already present at the destination.
C4_ExistenceCheckedBeforeTransfer ==
    \A f \in AllFiles :
        (<<"generate-presigned-url", f>> \in sent \/ <<"put", f>> \in sent) =>
            /\ <<"check-file-exist", f>> \in sent
            /\ f \notin storedAtStart

\* C5: when the same file list is submitted again after all of its files were
\* stored at the destination, the second session sends no PUT.
C5_SecondUploadSendsNoPut ==
    (pc # "idle" /\ files = prevFiles /\ Range(files) \subseteq storedAtStart) =>
        \A f \in AllFiles : putAttempts[f] = 0

\* C6: a remote call that fails transiently on every attempt is attempted
\* exactly 5 times, and its file is then recorded as failed.
C6_RetryCeiling ==
    pc = "ended" =>
        \A f \in Range(files) :
            /\ url[f] = "5xx" => (urlAttempts[f] = 5 /\ FailedReports(f) = 1)
            /\ (putAttempts[f] > 0 /\ putFailsFirst[f] >= 5) =>
                   (putAttempts[f] = 5 /\ put[f] = "failed" /\ FailedReports(f) = 1)

\* C7: a file whose PUT is answered 503 on its first k attempts, k < 5, and
\* would be accepted on attempt k+1, ends as succeeded after exactly k+1 PUT
\* attempts.
C7_TransientRecovery ==
    pc = "ended" =>
        \A f \in Range(files) :
            (putFailsFirst[f] >= 0 /\ putFailsFirst[f] < 5) =>
                /\ put[f] = "ok"
                /\ putAttempts[f] = putFailsFirst[f] + 1

\* C8: no presigned-URL request and no PUT exists for a file of a later batch
\* while a PUT of an earlier batch is created or in flight.
C8_BatchesOrdered ==
    \A m, n \in Positions :
        (BatchNo(m) < BatchNo(n) /\ (urlAttempts[files[n]] > 0 \/ put[files[n]] # "none")) =>
            put[files[m]] \notin {"created", "inflight"}

C8_Witness ==
    \E m, n \in Positions :
        /\ BatchNo(m) < BatchNo(n)
        /\ put[files[m]] = "ok"
        /\ put[files[n]] = "inflight"

\* C9: the number of PUTs in flight never exceeds the batch size.
C9_InFlightBounded == Cardinality(InFlight) <= BatchSize

C9_Witness ==
    /\ Len(files) > BatchSize
    /\ Cardinality(InFlight) = BatchSize

\* C10: when upload_files has returned, normally or with an error, no PUT of
\* its batch is still in flight.
C10_JoinBeforeReturn ==
    \A n \in Positions :
        (pc = "ended" \/ n <= i) => put[files[n]] # "inflight"

\* C11: every submitted upload session reaches its end: handle_upload shows
\* its final message, whatever the remote answers.
C11_SessionTerminates == (pc \in {"presign", "urlwait", "gather", "await"}) ~> (pc = "ended")

C11_Witness ==
    /\ pc = "ended"
    /\ Len(files) > BatchSize
    /\ i > 0
    /\ \E f \in Range(files) : url[f] \in {"401", "4xx", "5xx"}
PutStarted == {f \in AllFiles : put[f] \in {"inflight", "ok", "failed"}}

\* C12: a PUT starts only with a grant that was issued, the grant is the one
\* issued for the file whose content the PUT carries, no two PUTs share a
\* grant, and a grant is used for at most one PUT request.
C12_GrantDiscipline ==
    /\ \A f \in PutStarted :
           /\ taskArgs[f].url # NoFile
           /\ url[taskArgs[f].url] = "ok"
           /\ taskArgs[f].content = taskArgs[f].url
           /\ putAttempts[f] <= 1
    /\ \A f, g \in PutStarted : f # g => taskArgs[f].url # taskArgs[g].url

C12_Witness ==
    /\ Cardinality(PutStarted) >= 2
    /\ \E f \in PutStarted : put[f] = "ok"
    /\ \E f \in Range(files) : url[f] \in {"4xx", "5xx"}

\* C13: the files of one batch do not wait for each other: while the URL
\* request of one file is pending, the URL request of another file of the
\* batch that still lacks one can be sent, and a PUT whose grant is there can
\* start.
C13_NoOrderingBetweenFiles ==
    LET batch == Range(Batch(files, i))
    IN (\E f \in batch : url[f] = "pending") =>
          /\ (\E g \in batch : url[g] = "none") => ENABLED PostPresignedUrl
          /\ (\E g \in batch : put[g] = "created") => ENABLED Gather

\* C14: the success message is shown only if every submitted file got its
\* presigned URL and its PUT succeeded.
C14_SuccessMeansAllUploaded ==
    notice = "success" =>
        \A f \in Range(files) : url[f] = "ok" /\ put[f] = "ok"
ValidForm(fm) ==
    /\ fm.full_name # ""
    /\ fm.country # "Select Country"
    /\ fm.deployment # <<"Select Deployment">>
    /\ fm.data_type # "Select Data Type"
    /\ fm.nfiles >= 1

\* C15: a remote call of an upload is made only for a form with a full name,
\* a country, a deployment, a data type and at least one file; for any other
\* submitted form only a warning is shown and no upload starts.
C15_InputGuard ==
    /\ (sent # {} \/ pc \in {"presign", "urlwait", "gather", "await", "ended"}) =>
           ValidForm(form)
    /\ (form # BlankForm /\ ~ValidForm(form)) =>
           /\ pc = "shown"
           /\ sent = {}
           /\ notice = Warning(form)
           /\ notice # "none"

C15_Witness ==
    /\ notice = "Please select a data type."
    /\ form.nfiles > 0
    /\ stored # {}

Requested == {f \in AllFiles : urlAttempts[f] > 0 \/ put[f] # "none"}

C17_LoginGating ==
    /\ lastLogin \in {"401", "http", "neterr"} => deployments = <<>>
    /\ lastLogin \in {"401", "http", "neterr", "empty"} =>
           /\ sent = {}
           /\ pc \in {"idle", "shown"}
           /\ ~FormOffered

C17_Witness ==
    /\ lastLogin = "401"
    /\ stored # {}
    /\ pc = "shown"
====
